---- MODULE Spec2Model ----
(***************************************************************************)
(* cwlogger: a Logger that batches log events and ships the batches to     *)
(* CloudWatch Logs through a pool of log streams (src/cwlogger.go).        *)
(*                                                                         *)
(* Tasks of the program and where the model keeps their position:          *)
(*   caller of New / Log / Close ............ lgState, logged, closePc     *)
(*   one goroutine per Log call ............. inputSenders                 *)
(*   the batcher ............................ open, output, flushed        *)
(*   Logger.worker .......................... workerPc                     *)
(*   one goroutine per logStreams.write ..... writesSenders                *)
(*   logStreams.coordinator ................. ci, coordPc, coordBatch,     *)
(*                                            coordStream, coordErr        *)
(*   one logStreams.writer per stream ....... writers                      *)
(*   one goroutine per failed submission .... errorsSenders                *)
(* The remote service is an opaque collaborator whose answers are drawn    *)
(* nondeterministically: remoteTok, calls, putLog, failures.               *)
(* An unrecovered panic in any goroutine ends the process: crashed.        *)
(***************************************************************************)
EXTENDS Integers, Sequences, FiniteSets, TLC

\* ---------------------------------------------------------------- bounds
\* Number of Log calls the caller makes at most.
MaxEvents == 3
\* Per-batch event-count limit of the batcher.
MaxBatchCount == 2
\* Number of failures the remote service injects at most.
MaxFailures == 2

\* ------------------------------------------------------------- vocabulary
\* A nil *string sequence token.
NoToken == 0

\* Values of Config.Retention the caller may configure (0 = no policy).
Retentions == {0, 7}

\* Error kinds PutLogEvents can answer with.
InvalidToken == "InvalidSequenceTokenException"
AlreadyAccepted == "DataAlreadyAcceptedException"
OtherError == "OtherError"
Success == "Success"

\* A nil *writeError.
NoWriteError == [batch |-> <<>>, stream |-> 0, err |-> Success]

VARIABLES
    config,         \* the *Config handed to New
    lgState,        \* "none" | "running" | "error": what New returned
    calls,          \* control-plane calls received by the remote service, in order
    logged,         \* number of Log calls made so far; events are 1..logged
    lgWg,           \* Logger.wg counter
    inputSenders,   \* events whose Log goroutine is blocked on batcher.input
    open,           \* the batcher's open batch
    output,         \* batches the batcher emitted, not yet taken by the worker
    flushed,        \* batcher.flush was called: no further batches
    workerPc,       \* "idle" (not started) | "running" | "exited"
    closePc,        \* "none" | "waitDone" | "waitStreams" | "returned"
    streams,        \* logStreams.streams: sequence of [name, sequenceToken]
    writers,        \* writer goroutines: [stream, pc, batch, tok],
                    \* pc "starting" (ls.writers[stream] not yet read) |
                    \* "idle" | "calling" (in PutLogEvents) | "panicked"
    lsWg,           \* logStreams.wg counter (the in-flight counter)
    writesSenders,  \* batches whose goroutine is blocked on logStreams.writes
    errorsSenders,  \* writeErrors whose goroutine is blocked on logStreams.errors
    ci,             \* the coordinator's round-robin index i
    coordPc,        \* "select" | "send": blocked on ls.writers[stream] <- batch
                    \* | "create": in handle, ls.new() waits for CreateLogStream
                    \* | "drop": in handle, past ls.wg.Done(), before the hook
                    \* | "hook": in handle, inside Config.ErrorReporter
    coordBatch,     \* the batch the coordinator is sending
    coordStream,    \* index into streams of the stream it is sending to
    coordErr,       \* the writeError logStreams.handle is working on
    remoteTok,      \* remote service: token each created stream expects next
    putLog,         \* remote service: every PutLogEvents call, in order of answer:
                    \* [stream, batch, tok (presented), outcome, token (returned),
                    \*  expected (by the stream then), injected,
                    \*  pool (number of streams then)]
    failures,       \* number of failures the remote service injected
    dispatchLog,    \* every dispatch decision of the coordinator, in order:
                    \* [stream, batch, prev (index before), pool (streams then)]
    forwarded,      \* batches the worker handed to logStreams.write
    reported,       \* errors handed to Config.ErrorReporter, in order
    crashed         \* the process died of a panic

vars == <<config, lgState, calls, logged, lgWg, inputSenders, open, output,
          flushed, workerPc, closePc, streams, writers, lsWg, writesSenders,
          errorsSenders, ci, coordPc, coordBatch, coordStream, coordErr,
          remoteTok,
          putLog, failures, dispatchLog, forwarded, reported, crashed>>

bootVars == <<config, calls>>
intakeVars == <<logged, lgWg, inputSenders>>
batcherVars == <<open, output, flushed>>
coordVars == <<ci, coordPc, coordBatch, coordStream, coordErr>>
remoteVars == <<remoteTok, putLog, failures>>

\* ------------------------------------------------------------- batcher
\* The batcher's intake of one event: appending it to the open batch unless
\* that would exceed the count limit, in which case the open batch is sealed
\* and emitted and a new batch is started with the event.
BatcherAdd(op, out, e) ==
    IF Len(op) + 1 > MaxBatchCount
    THEN [open |-> <<e>>, output |-> Append(out, op)]
    ELSE [open |-> Append(op, e), output |-> out]

\* batcher.flush: seal and emit the open batch (an empty batch is not
\* emitted) and produce no further batches.
BatcherFlush(op, out) ==
    IF op = <<>> THEN out ELSE Append(out, op)

\* ------------------------------------------------------- error classes
ThrottlingException == "ThrottlingException"
errCodeThrottlingException == ThrottlingException

isErrorCode(err, code) == err = code

shouldRetry(err) == err \in {ThrottlingException, InvalidToken, AlreadyAccepted}

\* ------------------------------------------------------------- bootstrap
\* One control-plane call as the remote service saw it.
Call(op, ans) == [op |-> op, ans |-> ans]

\* Mutant: the retention policy is put whether or not the group was created
\* by this call.
createIfNotExists_RetentionOnExisting(retention, g, r) ==
    IF g = "fail" THEN [err |-> TRUE, calls |-> <<Call("CreateLogGroup", g)>>]
    ELSE IF retention # 0
         THEN [err |-> r = "fail",
               calls |-> <<Call("CreateLogGroup", g), Call("PutRetentionPolicy", r)>>]
         ELSE [err |-> FALSE, calls |-> <<Call("CreateLogGroup", g)>>]

\* Mutant: an error of PutRetentionPolicy is not returned.
createIfNotExists_RetentionErrorLost(retention, g, r) ==
    IF g = "exists" THEN [err |-> FALSE, calls |-> <<Call("CreateLogGroup", g)>>]
    ELSE IF g = "fail" THEN [err |-> TRUE, calls |-> <<Call("CreateLogGroup", g)>>]
    ELSE IF retention # 0
         THEN [err |-> FALSE,
               calls |-> <<Call("CreateLogGroup", g), Call("PutRetentionPolicy", r)>>]
         ELSE [err |-> FALSE, calls |-> <<Call("CreateLogGroup", g)>>]

\* Logger.createIfNotExists, given the remote answers g (CreateLogGroup) and
\* r (PutRetentionPolicy): the error it returns and the calls it made.
createIfNotExists(retention, g, r) ==
    IF g = "exists" THEN [err |-> FALSE, calls |-> <<Call("CreateLogGroup", g)>>]
    ELSE IF g = "fail" THEN [err |-> TRUE, calls |-> <<Call("CreateLogGroup", g)>>]
    ELSE IF retention # 0
         THEN [err |-> r = "fail",
               calls |-> <<Call("CreateLogGroup", g), Call("PutRetentionPolicy", r)>>]
         ELSE [err |-> FALSE, calls |-> <<Call("CreateLogGroup", g)>>]

\* Mutant: logStreams.new starts two writer goroutines on the stream's channel.
NewWriters_Two(s) ==
    <<[stream |-> s, pc |-> "starting", batch |-> <<>>, tok |-> NoToken],
      [stream |-> s, pc |-> "starting", batch |-> <<>>, tok |-> NoToken]>>

\* The writer goroutines logStreams.new starts for the stream at index s;
\* a started writer has yet to read its channel out of the ls.writers map.
NewWriters(s) == <<[stream |-> s, pc |-> "starting", batch |-> <<>>, tok |-> NoToken]>>

\* Mutant: the stream joins the pool although CreateLogStream failed.
new_IgnoreCreateError(strs, wrs, rtok, createOk) ==
    [err |-> FALSE,
     streams |-> Append(strs, [name |-> Len(strs), sequenceToken |-> NoToken]),
     writers |-> wrs \o NewWriters(Len(strs) + 1),
     remoteTok |-> IF createOk THEN Append(rtok, NoToken) ELSE rtok]

\* Mutant: the stream is named after the number of streams once it is added.
new_OffByOne(strs, wrs, rtok, createOk) ==
    IF ~createOk
    THEN [err |-> TRUE, streams |-> strs, writers |-> wrs, remoteTok |-> rtok]
    ELSE [err |-> FALSE,
          streams |-> Append(strs, [name |-> Len(strs) + 1, sequenceToken |-> NoToken]),
          writers |-> wrs \o NewWriters(Len(strs) + 1),
          remoteTok |-> Append(rtok, NoToken)]

\* logStreams.new, given the remote answer to CreateLogStream: the pool
\* (streams, writers), the remote streams and the error it returns. The
\* stream is named after the number of streams in the pool.
new(strs, wrs, rtok, createOk) ==
    IF ~createOk
    THEN [err |-> TRUE, streams |-> strs, writers |-> wrs, remoteTok |-> rtok]
    ELSE [err |-> FALSE,
          streams |-> Append(strs, [name |-> Len(strs), sequenceToken |-> NoToken]),
          writers |-> wrs \o NewWriters(Len(strs) + 1),
          remoteTok |-> Append(rtok, NoToken)]

\* The map write ls.writers[stream] = ... of logStreams.new is not ordered
\* with the map read ls.writers[stream] of a writer goroutine that was
\* started earlier and has not read yet: a data race on the map.
MapRace(wrs) == \E w \in 1..Len(wrs) : wrs[w].pc = "starting"

\* What the process may do at the map write of logStreams.new: on a data
\* race the runtime may stop it (concurrent map read and map write) or let
\* both accesses through.
MapWriteCrashes(wrs, added) == IF added /\ MapRace(wrs) THEN BOOLEAN ELSE {FALSE}

\* The answer of CreateLogStream as recorded with the call.
CreateAnswer(createOk) == IF createOk THEN "ok" ELSE "fail"

\* New, up to the CreateLogStream call of lg.streams.new(): configuration
\* check, newLogStreams (the coordinator runs from here on), group
\* bootstrap.
New ==
    /\ lgState = "none"
    /\ IF ~config.client \/ ~config.name
       THEN /\ lgState' = "error"
            /\ UNCHANGED calls
       ELSE \E g \in {"ok", "exists", "fail"}, r \in {"ok", "fail"} :
              LET grp == createIfNotExists(config.retention, g, r)
              IN /\ calls' = calls \o grp.calls
                 /\ lgState' = IF grp.err THEN "error" ELSE "creating"
    /\ UNCHANGED <<config, intakeVars, batcherVars, workerPc, closePc, streams,
                   writers, lsWg, writesSenders, errorsSenders, coordVars,
                   remoteVars, dispatchLog, forwarded, reported, crashed>>

\* New, from the answer of CreateLogStream on: lg.streams.new() adds the
\* initial stream, the worker is started and the Logger returned, or the
\* error is returned.
NewFinish ==
    /\ lgState = "creating"
    /\ \E c \in BOOLEAN :
         LET res == new(streams, writers, remoteTok, c)
         IN /\ calls' = Append(calls, Call("CreateLogStream", CreateAnswer(c)))
            /\ streams' = res.streams
            /\ writers' = res.writers
            /\ remoteTok' = res.remoteTok
            /\ lgState' = IF res.err THEN "error" ELSE "running"
            /\ workerPc' = IF res.err THEN workerPc ELSE "running"
            /\ crashed' \in MapWriteCrashes(writers, ~res.err)
    /\ UNCHANGED <<config, intakeVars, batcherVars, closePc, lsWg, writesSenders,
                   errorsSenders, coordVars, putLog, failures, dispatchLog,
                   forwarded, reported>>

\* Mutant: lg.streams.new() runs asynchronously; the worker is started and
\* the Logger returned while the initial stream is being created.
PastStreamsNew_Async == lgState \in {"creating", "running"}

\* New is past lg.streams.new(): the worker runs and the caller holds the
\* Logger only from then on.
PastStreamsNew == lgState = "running"

\* ---------------------------------------------------------------- intake
\* Logger.Log: count the call in Logger.wg and start the goroutine that
\* hands the event to the batcher.
Log ==
    /\ PastStreamsNew /\ ~crashed
    /\ closePc = "none"
    /\ logged < MaxEvents
    /\ logged' = logged + 1
    /\ lgWg' = lgWg + 1
    /\ inputSenders' = inputSenders \cup {logged + 1}
    /\ UNCHANGED <<bootVars, lgState, batcherVars, workerPc, closePc, streams,
                   writers, lsWg, writesSenders, errorsSenders, coordVars,
                   remoteVars, dispatchLog, forwarded, reported, crashed>>

\* The goroutine of one Log call: the send on batcher.input is taken by the
\* batcher, then Logger.wg.Done.
LogSend(e) ==
    /\ ~crashed
    /\ e \in inputSenders
    /\ ~flushed
    /\ LET b == BatcherAdd(open, output, e)
       IN /\ open' = b.open
          /\ output' = b.output
    /\ inputSenders' = inputSenders \ {e}
    /\ lgWg' = lgWg - 1
    /\ UNCHANGED <<bootVars, lgState, logged, flushed, workerPc, closePc, streams,
                   writers, lsWg, writesSenders, errorsSenders, coordVars,
                   remoteVars, dispatchLog, forwarded, reported, crashed>>

\* --------------------------------------------------------------- worker
\* Mutant: logStreams.write does not count the batch.
LogStreamsWriteAdd_Missing(n) == n

\* logStreams.write: count the batch in logStreams.wg, then start the
\* goroutine that offers it on logStreams.writes.
LogStreamsWriteAdd(n) == n + 1

\* Logger.worker, one iteration of its loop: take the next batch from
\* batcher.output and hand it to logStreams.write.
WorkerForward ==
    /\ ~crashed
    /\ PastStreamsNew /\ workerPc # "exited"
    /\ output # <<>>
    /\ output' = Tail(output)
    /\ lsWg' = LogStreamsWriteAdd(lsWg)
    /\ writesSenders' = writesSenders \cup {Head(output)}
    /\ forwarded' = forwarded \cup {Head(output)}
    /\ UNCHANGED <<bootVars, lgState, intakeVars, open, flushed, workerPc, closePc,
                   streams, writers, errorsSenders, coordVars, remoteVars,
                   dispatchLog, reported, crashed>>

\* The range loop of Logger.worker ends when batcher.output is closed and
\* every batch sent on it was received.
WorkerLoopEnded == flushed /\ output = <<>>

\* Mutant: Close does not wait for the Log goroutines before it flushes.
LgWgWait_NoWait == TRUE

\* Logger.wg.Wait in Close.
LgWgWait == lgWg = 0

\* Mutant: logStreams.flush returns without waiting for the counter.
flush_NoWait == TRUE

\* logStreams.flush: logStreams.wg.Wait.
flush == lsWg = 0

\* Close, first part: wait for the Log goroutines, then flush the batcher;
\* Close then blocks on <-lg.done.
CloseFlush ==
    /\ ~crashed
    /\ PastStreamsNew
    /\ closePc = "none"
    /\ LgWgWait
    /\ output' = BatcherFlush(open, output)
    /\ open' = <<>>
    /\ flushed' = TRUE
    /\ closePc' = "waitDone"
    /\ UNCHANGED <<bootVars, lgState, intakeVars, workerPc, streams, writers, lsWg,
                   writesSenders, errorsSenders, coordVars, remoteVars,
                   dispatchLog, forwarded, reported, crashed>>

\* lg.done <- true in Logger.worker meets <-lg.done in Close.
WorkerDone ==
    /\ ~crashed
    /\ PastStreamsNew /\ workerPc # "exited"
    /\ WorkerLoopEnded
    /\ closePc = "waitDone"
    /\ workerPc' = "exited"
    /\ closePc' = "waitStreams"
    /\ UNCHANGED <<bootVars, lgState, intakeVars, batcherVars, streams, writers,
                   lsWg, writesSenders, errorsSenders, coordVars, remoteVars,
                   dispatchLog, forwarded, reported, crashed>>

\* Close, last part: lg.streams.flush() returns and so does Close.
CloseReturn ==
    /\ ~crashed
    /\ closePc = "waitStreams"
    /\ flush
    /\ closePc' = "returned"
    /\ UNCHANGED <<bootVars, lgState, intakeVars, batcherVars, workerPc, streams,
                   writers, lsWg, writesSenders, errorsSenders, coordVars,
                   remoteVars, dispatchLog, forwarded, reported, crashed>>

\* ----------------------------------------------------------- coordinator
\* Mutant: the index is advanced without the modulo.
NextIndex_NoWrap(i, n) == i + 1

\* i = (i + 1) % len(ls.streams)
NextIndex(i, n) == (i + 1) % n

\* coordinator, case batch := <-ls.writes: pick the next stream round-robin
\* and start the send on that stream's writer channel. The modulo panics
\* (integer divide by zero) should the pool be empty.
CoordDispatch(b) ==
    /\ ~crashed
    /\ coordPc = "select"
    /\ b \in writesSenders
    /\ writesSenders' = writesSenders \ {b}
    /\ IF Len(streams) = 0
       THEN /\ crashed' = TRUE
            /\ UNCHANGED <<coordVars, dispatchLog>>
       ELSE /\ ci' = NextIndex(ci, Len(streams))
            /\ coordStream' = ci' + 1
            /\ coordBatch' = b
            /\ coordPc' = "send"
            /\ dispatchLog' = Append(dispatchLog,
                    [stream |-> ci' + 1, batch |-> b, prev |-> ci,
                     pool |-> Len(streams)])
            /\ UNCHANGED <<coordErr, crashed>>
    /\ UNCHANGED <<bootVars, lgState, intakeVars, batcherVars, workerPc, closePc,
                   streams, writers, lsWg, errorsSenders, remoteVars, forwarded,
                   reported>>

\* logStreams.handle from "if shouldRetry" on, up to the call of the hook:
\* the retry goroutine is started, or the in-flight counter is released and
\* the coordinator stands before the call of Config.ErrorReporter.
handle(we) ==
    IF shouldRetry(we.err)
    THEN [writesSenders |-> writesSenders \cup {we.batch}, lsWg |-> lsWg,
          coordPc |-> "select", coordErr |-> NoWriteError]
    ELSE [writesSenders |-> writesSenders, lsWg |-> lsWg - 1,
          coordPc |-> "drop", coordErr |-> we]

\* coordinator, case err := <-ls.errors: ls.handle(err), one step of it by
\* the coordinator's position. handle runs in the coordinator goroutine, so
\* the coordinator serves neither channel until handle has returned.
\*   "select": the writeError is received; on a throttling error ls.new()
\*             issues CreateLogStream and waits for the answer, else the
\*             retry-or-drop part runs;
\*   "create": CreateLogStream answered: on success the stream joins the
\*             pool and its writer is started, the error ls.new() returns is
\*             discarded; then the retry-or-drop part runs;
\*   "drop":   the counter is released already; Config.ErrorReporter is
\*             called with the error;
\*   "hook":   Config.ErrorReporter returns and with it handle.
CoordHandle ==
    /\ ~crashed
    /\ IF coordPc = "select"
       THEN \E we \in errorsSenders :
              /\ errorsSenders' = errorsSenders \ {we}
              /\ IF isErrorCode(we.err, errCodeThrottlingException)
                 THEN /\ coordPc' = "create"
                      /\ coordErr' = we
                      /\ UNCHANGED <<writesSenders, lsWg>>
                 ELSE LET h == handle(we)
                      IN /\ writesSenders' = h.writesSenders
                         /\ lsWg' = h.lsWg
                         /\ coordPc' = h.coordPc
                         /\ coordErr' = h.coordErr
              /\ UNCHANGED <<streams, writers, remoteTok, calls, reported, crashed>>
       ELSE IF coordPc = "create"
       THEN \E createOk \in BOOLEAN :
              LET grown == new(streams, writers, remoteTok, createOk)
                  h == handle(coordErr)
              IN /\ calls' = Append(calls, Call("CreateLogStream",
                                                CreateAnswer(createOk)))
                 /\ streams' = grown.streams
                 /\ writers' = grown.writers
                 /\ remoteTok' = grown.remoteTok
                 /\ crashed' \in MapWriteCrashes(writers, ~grown.err)
                 /\ writesSenders' = h.writesSenders
                 /\ lsWg' = h.lsWg
                 /\ coordPc' = h.coordPc
                 /\ coordErr' = h.coordErr
                 /\ UNCHANGED <<errorsSenders, reported>>
       ELSE IF coordPc = "drop"
       THEN /\ reported' = Append(reported, coordErr)
            /\ coordPc' = "hook"
            /\ UNCHANGED <<streams, writers, remoteTok, calls, writesSenders, lsWg,
                           errorsSenders, coordErr, crashed>>
       ELSE /\ coordPc = "hook"
            /\ coordPc' = "select"
            /\ coordErr' = NoWriteError
            /\ UNCHANGED <<streams, writers, remoteTok, calls, writesSenders, lsWg,
                           errorsSenders, reported, crashed>>
    /\ UNCHANGED <<config, lgState, intakeVars, batcherVars, workerPc, closePc,
                   ci, coordBatch, coordStream, putLog, failures, dispatchLog,
                   forwarded>>

\* ---------------------------------------------------------------- writer
\* Tokens an injected InvalidSequenceToken / DataAlreadyAccepted answer may
\* carry as ExpectedSequenceToken: none, the token the stream expects, or
\* (once the stream has a token) a token the stream does not expect.
ExpectedChoices(rtok) ==
    {NoToken, rtok} \cup (IF rtok # NoToken THEN {rtok + 1} ELSE {})

\* The answers the remote service can give to PutLogEvents on a stream that
\* expects rtok when presented with token tok.
PutLogEventsAnswers(tok, rtok) ==
    (IF tok = rtok
     THEN {[outcome |-> Success, token |-> rtok + 1, injected |-> FALSE]}
     ELSE {[outcome |-> InvalidToken, token |-> rtok, injected |-> FALSE]})
    \cup
    (IF failures < MaxFailures
     THEN {[outcome |-> k, token |-> t, injected |-> TRUE] :
              k \in {InvalidToken, AlreadyAccepted}, t \in ExpectedChoices(rtok)}
          \cup {[outcome |-> k, token |-> NoToken, injected |-> TRUE] :
                  k \in {ThrottlingException, OtherError}}
     ELSE {})

\* Mutant: the expected token of a failed call is not adopted.
LogStreamWrite_NoAdopt(cur, ans) ==
    IF ans.outcome = Success
    THEN [sequenceToken |-> ans.token, err |-> Success, panic |-> FALSE]
    ELSE IF ans.outcome \in {InvalidToken, AlreadyAccepted}
    THEN [sequenceToken |-> cur, err |-> ans.outcome, panic |-> FALSE]
    ELSE [sequenceToken |-> cur, err |-> ans.outcome, panic |-> TRUE]

\* logStream.write after the PutLogEvents call answered ans, for a stream
\* holding token cur: the token it holds next, the error it returns, and
\* whether it panics.
LogStreamWrite(cur, ans) ==
    IF ans.outcome = Success
    THEN [sequenceToken |-> ans.token, err |-> Success, panic |-> FALSE]
    ELSE IF ans.outcome \in {InvalidToken, AlreadyAccepted}
    THEN [sequenceToken |-> IF ans.token # NoToken THEN ans.token ELSE cur,
          err |-> ans.outcome, panic |-> FALSE]
    ELSE [sequenceToken |-> cur, err |-> ans.outcome, panic |-> TRUE]

\* writer, the range expression ls.writers[stream]: the writer reads its
\* channel out of the map, once, and waits on it from then on.
WriterStart(w) ==
    /\ ~crashed
    /\ w \in 1..Len(writers)
    /\ writers[w].pc = "starting"
    /\ writers' = [writers EXCEPT ![w].pc = "idle"]
    /\ UNCHANGED <<bootVars, lgState, intakeVars, batcherVars, workerPc, closePc,
                   streams, lsWg, writesSenders, errorsSenders, coordVars,
                   remoteVars, dispatchLog, forwarded, reported, crashed>>

\* A writer that may take the next batch from its channel.
WriterReady(w) == writers[w].pc = "idle"

\* writer, for batch := range ls.writers[stream]: the coordinator's send is
\* received and stream.write issues PutLogEvents with the token the stream
\* holds.
WriterRecv(w) ==
    /\ ~crashed
    /\ w \in 1..Len(writers)
    /\ WriterReady(w)
    /\ coordPc = "send"
    /\ coordStream = writers[w].stream
    /\ writers' = [writers EXCEPT ![w] =
                     [stream |-> @.stream, pc |-> "calling", batch |-> coordBatch,
                      tok |-> streams[@.stream].sequenceToken]]
    /\ coordPc' = "select"
    /\ coordBatch' = <<>>
    /\ coordStream' = 0
    /\ UNCHANGED <<bootVars, lgState, intakeVars, batcherVars, workerPc, closePc,
                   streams, lsWg, writesSenders, errorsSenders, ci, coordErr,
                   remoteVars, dispatchLog, forwarded, reported, crashed>>

\* writer, after stream.write returned: on an error start the goroutine that
\* offers the writeError on ls.errors, else ls.wg.Done().
WriterResp(w) ==
    /\ ~crashed
    /\ w \in 1..Len(writers)
    /\ writers[w].pc = "calling"
    /\ LET s == writers[w].stream
           b == writers[w].batch
       IN \E ans \in PutLogEventsAnswers(writers[w].tok, remoteTok[s]) :
            LET res == LogStreamWrite(streams[s].sequenceToken, ans)
            IN /\ putLog' = Append(putLog,
                     [stream |-> s, batch |-> b, tok |-> writers[w].tok,
                      outcome |-> ans.outcome, token |-> ans.token,
                      expected |-> remoteTok[s], injected |-> ans.injected,
                      pool |-> Len(streams)])
               /\ failures' = IF ans.injected THEN failures + 1 ELSE failures
               /\ remoteTok' = IF ans.outcome = Success
                               THEN [remoteTok EXCEPT ![s] = ans.token]
                               ELSE remoteTok
               /\ streams' = [streams EXCEPT ![s].sequenceToken = res.sequenceToken]
               /\ crashed' = res.panic
               /\ writers' = IF res.panic THEN [writers EXCEPT ![w].pc = "panicked"]
                             ELSE [writers EXCEPT ![w].pc = "idle",
                                                  ![w].batch = <<>>,
                                                  ![w].tok = NoToken]
               /\ errorsSenders' =
                     IF ~res.panic /\ res.err # Success
                     THEN errorsSenders \cup
                            {[batch |-> b, stream |-> s, err |-> res.err]}
                     ELSE errorsSenders
               /\ lsWg' = IF res.err = Success THEN lsWg - 1 ELSE lsWg
    /\ UNCHANGED <<bootVars, lgState, intakeVars, batcherVars, workerPc, closePc,
                   writesSenders, coordVars, dispatchLog, forwarded, reported>>

Init ==
    /\ config \in [client : BOOLEAN, name : BOOLEAN, retention : Retentions]
    /\ lgState = "none"
    /\ calls = <<>>
    /\ logged = 0
    /\ lgWg = 0
    /\ inputSenders = {}
    /\ open = <<>>
    /\ output = <<>>
    /\ flushed = FALSE
    /\ workerPc = "idle"
    /\ closePc = "none"
    /\ streams = <<>>
    /\ writers = <<>>
    /\ lsWg = 0
    /\ writesSenders = {}
    /\ errorsSenders = {}
    /\ ci = 0
    /\ coordPc = "select"
    /\ coordBatch = <<>>
    /\ coordStream = 0
    /\ coordErr = NoWriteError
    /\ remoteTok = <<>>
    /\ putLog = <<>>
    /\ failures = 0
    /\ dispatchLog = <<>>
    /\ forwarded = {}
    /\ reported = <<>>
    /\ crashed = FALSE

Next ==
    \/ New
    \/ NewFinish
    \/ Log
    \/ \E e \in 1..MaxEvents : LogSend(e)
    \/ WorkerForward
    \/ CloseFlush
    \/ WorkerDone
    \/ CloseReturn
    \/ \E b \in writesSenders : CoordDispatch(b)
    \/ CoordHandle
    \/ \E w \in 1..Len(writers) : WriterStart(w)
    \/ \E w \in 1..Len(writers) : WriterRecv(w)
    \/ \E w \in 1..Len(writers) : WriterResp(w)

Spec == Init /\ [][Next]_vars
\* ======================================================================
\* Properties
\* ======================================================================

\* Batches that were handed to logStreams.write and are still on their way:
\* offered on ls.writes, held by the coordinator, being submitted by a
\* writer, or offered on ls.errors.
InPipeline ==
    writesSenders
    \cup (IF coordPc = "send" THEN {coordBatch} ELSE {})
    \cup {writers[w].batch : w \in {v \in 1..Len(writers) : writers[v].pc = "calling"}}
    \cup {we.batch : we \in errorsSenders}
    \cup (IF coordPc = "create" THEN {coordErr.batch} ELSE {})

\* Batches with a terminal outcome: submitted successfully, or dropped
\* (reported, or about to be: the counter is released before the hook is
\* called).
Submitted == {putLog[i].batch : i \in {k \in DOMAIN putLog : putLog[k].outcome = Success}}
Dropped ==
    {reported[i].batch : i \in DOMAIN reported}
    \cup (IF coordPc = "drop" THEN {coordErr.batch} ELSE {})

Events(b) == {b[j] : j \in DOMAIN b}

\* Events that entered the batcher.
Batched == (1..logged) \ inputSenders

\* Positions at which event e occurs in the successfully submitted batches.
Deliveries(e) ==
    {<<i, j>> \in (DOMAIN putLog) \X (1..MaxEvents) :
        /\ putLog[i].outcome = Success
        /\ j \in DOMAIN putLog[i].batch
        /\ putLog[i].batch[j] = e}

NoRemoteFailure == \A i \in DOMAIN putLog : putLog[i].outcome = Success

\* C1: when Close has returned, the in-flight counter is zero, no batch
\* handed to the stream pool is still on its way, no emitted batch is left
\* unforwarded, and every event that entered the batcher is in a batch
\* that was submitted successfully or dropped.
C1_CloseWaitsForBatches ==
    closePc = "returned" =>
        /\ lsWg = 0
        /\ InPipeline = {}
        /\ output = <<>> /\ open = <<>>
        /\ \A e \in Batched : \E b \in Submitted \cup Dropped : e \in Events(b)

C1_Witness ==
    /\ closePc = "returned"
    /\ Cardinality(Submitted) >= 2
    /\ ~NoRemoteFailure

\* C2: in a run without a failed remote call, when Close has returned every
\* event passed to Log occurs exactly once in the successfully submitted
\* batches, and nothing else was submitted.
C2_NoLossNoDuplication ==
    (closePc = "returned" /\ NoRemoteFailure) =>
        /\ \A e \in 1..logged : Cardinality(Deliveries(e)) = 1
        /\ \A i \in DOMAIN putLog : Events(putLog[i].batch) \subseteq 1..logged
        /\ \A i \in DOMAIN putLog : putLog[i].batch # <<>>

C2_Witness ==
    /\ closePc = "returned"
    /\ NoRemoteFailure
    /\ logged = MaxEvents
    /\ Len(putLog) >= 2
    /\ \E i \in DOMAIN putLog : Len(putLog[i].batch) >= 2
\* The error hook was invoked this many times for batch b.
Reports(b) == Cardinality({k \in DOMAIN reported : reported[k].batch = b})

\* C3: once PutLogEvents answered a submission of a batch with a
\* non-retryable failure, that failure is on its way to the coordinator or
\* the error hook was invoked exactly once for the batch; the batch is not
\* submitted again; and the process is alive, so that Close can return.
C3_TerminalDrop ==
    \A i \in DOMAIN putLog :
        putLog[i].outcome = OtherError =>
            /\ \/ \E we \in errorsSenders :
                    we.batch = putLog[i].batch /\ we.err = OtherError
               \/ Reports(putLog[i].batch) = 1
            /\ \A j \in DOMAIN putLog : j > i => putLog[j].batch # putLog[i].batch
            /\ ~crashed

\* C4: no answer of PutLogEvents ends the process.
C4_NoCrash == ~crashed

\* C5: once PutLogEvents answered a submission of a batch with
\* ThrottlingException, the failure is on its way to the coordinator, or the
\* pool has more streams than it had then and the batch is on its way again
\* or was submitted again.
C5_ThrottleGrowsPool ==
    \A i \in DOMAIN putLog :
        putLog[i].outcome = ThrottlingException =>
            \/ \E we \in errorsSenders :
                 we.batch = putLog[i].batch /\ we.err = ThrottlingException
            \/ /\ Len(streams) > putLog[i].pool
               /\ \/ putLog[i].batch \in InPipeline
                  \/ \E j \in DOMAIN putLog : j > i /\ putLog[j].batch = putLog[i].batch

\* Submission j is the next submission of the batch of submission i.
NextAttempt(i, j) ==
    /\ i < j
    /\ putLog[j].batch = putLog[i].batch
    /\ \A k \in DOMAIN putLog : (i < k /\ k < j) => putLog[k].batch # putLog[i].batch

\* Submission i is the last one of its batch so far.
LastAttempt(i) ==
    \A k \in DOMAIN putLog : k > i => putLog[k].batch # putLog[i].batch

SequencingConflict == {InvalidToken, AlreadyAccepted}

NextOnStream(i, j) ==
    /\ i < j
    /\ putLog[j].stream = putLog[i].stream
    /\ \A k \in DOMAIN putLog : (i < k /\ k < j) => putLog[k].stream # putLog[i].stream

\* C7: the call that follows, on the same stream, an InvalidSequenceToken
\* or DataAlreadyAccepted answer carrying an expected token presents that
\* token; the call that follows a success presents the returned
\* nextSequenceToken; and a call presenting the token the stream expects
\* succeeds unless the service injects a failure.
C7_TokenAdoption ==
    /\ \A i, j \in DOMAIN putLog :
          NextOnStream(i, j) =>
              /\ (putLog[i].outcome \in SequencingConflict /\ putLog[i].token # NoToken)
                    => putLog[j].tok = putLog[i].token
              /\ putLog[i].outcome = Success => putLog[j].tok = putLog[i].token
    /\ \A j \in DOMAIN putLog :
          (putLog[j].tok = putLog[j].expected /\ ~putLog[j].injected)
              => putLog[j].outcome = Success

C7_Witness ==
    \E i, j \in DOMAIN putLog :
        /\ NextOnStream(i, j)
        /\ putLog[i].outcome = InvalidToken
        /\ putLog[i].token # NoToken
        /\ putLog[i].token # putLog[i].tok
        /\ putLog[j].tok = putLog[i].token
        /\ putLog[j].outcome = Success

Calling(w) == writers[w].pc = "calling"

\* C8: no two submissions are in progress through the same stream, and
\* every stream of the pool has exactly one writer.
C8_OneSubmissionPerStream ==
    /\ \A v, w \in 1..Len(writers) :
          (v # w /\ Calling(v) /\ Calling(w)) => writers[v].stream # writers[w].stream
    /\ \A s \in 1..Len(streams) :
          Cardinality({w \in 1..Len(writers) : writers[w].stream = s}) = 1

\* A submission is in progress on a stream while the coordinator holds the
\* next batch for that same stream.
C8_Witness ==
    /\ coordPc = "send"
    /\ \E w \in 1..Len(writers) : Calling(w) /\ writers[w].stream = coordStream

\* The batches submitted through stream s, in order of the answers.
PutsOn(s) ==
    LET On(r) == r.stream = s
        sel == SelectSeq(putLog, On)
    IN [k \in 1..Len(sel) |-> sel[k].batch]

\* The batches dispatched to stream s, in order of dispatch.
DispatchedTo(s) ==
    LET On(r) == r.stream = s
        sel == SelectSeq(dispatchLog, On)
    IN [k \in 1..Len(sel) |-> sel[k].batch]

\* C9: the submissions through a stream are made in the order of dispatch
\* to that stream, and a submission in progress is that of the batch
\* dispatched right after the submissions completed so far.
C9_FifoPerStream ==
    \A s \in 1..Len(streams) :
        LET p == PutsOn(s)
            d == DispatchedTo(s)
        IN /\ Len(p) <= Len(d)
           /\ \A k \in 1..Len(p) : p[k] = d[k]
           /\ \A w \in 1..Len(writers) :
                 (Calling(w) /\ writers[w].stream = s) =>
                     /\ Len(d) > Len(p)
                     /\ writers[w].batch = d[Len(p) + 1]

C9_Witness ==
    \E s \in 1..Len(streams) :
        /\ Len(PutsOn(s)) >= 3
        /\ Cardinality({PutsOn(s)[k] : k \in 1..Len(PutsOn(s))}) >= 2
        /\ Len(DispatchedTo(s)) > Len(PutsOn(s))
\* The remote service answered a call of op with ans.
Answered(op, ans) == \E i \in DOMAIN calls : calls[i] = Call(op, ans)

\* The first CreateLogStream call, the one New makes, failed.
InitialCreateFailed ==
    \E i \in DOMAIN calls :
        /\ calls[i] = Call("CreateLogStream", "fail")
        /\ \A j \in 1..(i - 1) : calls[j].op # "CreateLogStream"

ConfigMissing == ~config.client \/ ~config.name

\* C11: once New has returned, it returned an error exactly when the client
\* or the group name is missing, or CreateLogGroup failed with something
\* other than AlreadyExists, or PutRetentionPolicy failed, or the initial
\* CreateLogStream failed; with a missing client or name no remote call was
\* made; right after a successful New the pool holds exactly one stream;
\* and the worker runs only once a stream was created.
C11_ConstructionError ==
    /\ lgState \in {"running", "error"} =>
          /\ lgState = "error" <=>
                \/ ConfigMissing
                \/ Answered("CreateLogGroup", "fail")
                \/ Answered("PutRetentionPolicy", "fail")
                \/ InitialCreateFailed
          /\ ConfigMissing => calls = <<>>
    /\ (lgState = "running" /\ logged = 0) => Len(streams) = 1
    /\ workerPc # "idle" =>
          /\ Len(streams) >= 1
          /\ Answered("CreateLogStream", "ok")

C11_Witness ==
    /\ lgState = "error"
    /\ ~ConfigMissing
    /\ Answered("CreateLogGroup", "ok")
    /\ Answered("PutRetentionPolicy", "fail")

\* C12: the batcher is flushed only when every Log call has handed its
\* event to the batcher, so every logged event is in an emitted batch; and
\* Close waits on the in-flight counter only when the worker has handed
\* every emitted batch to logStreams.write and has left its loop.
C12_DrainOrder ==
    /\ flushed =>
          /\ inputSenders = {} /\ lgWg = 0 /\ open = <<>>
          /\ \A e \in 1..logged :
                \/ \E k \in DOMAIN output : e \in Events(output[k])
                \/ \E b \in forwarded : e \in Events(b)
    /\ closePc \in {"waitStreams", "returned"} =>
          /\ output = <<>>
          /\ workerPc = "exited"
          /\ \A e \in 1..logged : \E b \in forwarded : e \in Events(b)

C12_Witness ==
    /\ closePc = "waitStreams"
    /\ logged = MaxEvents
    /\ Cardinality(forwarded) >= 2
    /\ lsWg > 0

\* C13: every dispatch, of a fresh or of a retried batch, starts from the
\* index the previous dispatch left, advances it by one modulo the number
\* of streams and sends to the stream at that index; while the pool has k
\* streams, k consecutive dispatches go to k distinct streams.
C13_RoundRobin ==
    /\ \A k \in DOMAIN dispatchLog :
          /\ dispatchLog[k].prev =
                (IF k = 1 THEN 0 ELSE dispatchLog[k - 1].stream - 1)
          /\ dispatchLog[k].stream =
                ((dispatchLog[k].prev + 1) % dispatchLog[k].pool) + 1
    /\ ci = IF dispatchLog = <<>> THEN 0
            ELSE dispatchLog[Len(dispatchLog)].stream - 1
    /\ \A k \in DOMAIN dispatchLog :
          LET n == dispatchLog[k].pool
              window == k..(k + n - 1)
          IN (/\ window \subseteq DOMAIN dispatchLog
              /\ \A m \in window : dispatchLog[m].pool = n)
                 => Cardinality({dispatchLog[m].stream : m \in window}) = n

C13_Witness ==
    /\ Len(dispatchLog) >= 3
    /\ \E k, m \in DOMAIN dispatchLog :
          k < m /\ dispatchLog[k].batch = dispatchLog[m].batch
    /\ \E k, m \in DOMAIN dispatchLog : dispatchLog[k].batch # dispatchLog[m].batch

\* C14: the in-flight counter is the number of batches handed to
\* logStreams.write that were neither submitted successfully nor dropped,
\* and is never negative.
C14_InFlightCounter ==
    /\ lsWg = Cardinality(forwarded \ (Submitted \cup Dropped))
    /\ lsWg >= 0

C14_Witness ==
    /\ lsWg = 1
    /\ Cardinality(forwarded) = 2
    /\ Cardinality(Submitted) = 1
    /\ \E i \in DOMAIN putLog : putLog[i].outcome \in SequencingConflict

\* C15: while the constructor is inside lg.streams.new() the coordinator is
\* parked in its select with no sender on ls.writes or ls.errors; every
\* other change of the stream list or of the writers is made by the
\* coordinator inside the ls.new() of handle; the writer map is never
\* written while a started writer has yet to read its channel out of it;
\* and the round-robin index changes only in a dispatch of the coordinator.
C15_SerializedPool ==
    /\ [](lgState = "creating" =>
             /\ coordPc = "select"
             /\ writesSenders = {} /\ errorsSenders = {}
             /\ dispatchLog = <<>>)
    /\ [][/\ (Len(streams') # Len(streams) \/ Len(writers') # Len(writers)) =>
                /\ lgState = "creating" \/ coordPc = "create"
                /\ ~MapRace(writers)
          /\ ci' # ci => (coordPc = "select" /\ coordPc' = "send")]_vars

\* The initial stream was added by the constructor and a dispatch of the
\* coordinator has selected it since.
C15_Witness ==
    /\ lgState = "running"
    /\ Len(streams) = 1
    /\ dispatchLog # <<>>
    /\ coordPc = "send"

\* C16: PutRetentionPolicy is called only with a non-zero retention
\* configured and right after a CreateLogGroup call that created the group;
\* CreateLogGroup is the first call, and every CreateLogStream call comes
\* after them.
C16_RetentionOnlyOnCreate ==
    /\ \A i \in DOMAIN calls :
          calls[i].op = "PutRetentionPolicy" =>
              /\ config.retention # 0
              /\ i = 2
              /\ calls[1] = Call("CreateLogGroup", "ok")
    /\ \A i \in DOMAIN calls : calls[i].op = "CreateLogGroup" <=> i = 1
    /\ \A i, j \in DOMAIN calls :
          (calls[i].op = "CreateLogStream" /\ calls[j].op # "CreateLogStream") => j < i

C16_Witness ==
    /\ Len(calls) = 3
    /\ calls[2].op = "PutRetentionPolicy"
    /\ calls[3] = Call("CreateLogStream", "ok")

\* C17: a batch is offered to the coordinator, and dispatched, only with a
\* non-empty pool; the pool holds one stream per successful CreateLogStream
\* call, each with exactly one writer; and PutLogEvents is issued only to
\* streams the remote service created.
C17_PoolWellFormed ==
    /\ (writesSenders # {} \/ coordPc = "send") => Len(streams) >= 1
    /\ \A k \in DOMAIN dispatchLog : dispatchLog[k].pool >= 1
    /\ Len(streams) =
          Cardinality({i \in DOMAIN calls : calls[i] = Call("CreateLogStream", "ok")})
    /\ Len(streams) = Len(remoteTok)
    /\ \A s \in 1..Len(streams) :
          Cardinality({w \in 1..Len(writers) : writers[w].stream = s}) = 1
    /\ \A w \in 1..Len(writers) : writers[w].stream \in 1..Len(remoteTok)
    /\ \A i \in DOMAIN putLog : putLog[i].stream \in 1..Len(remoteTok)

C17_Witness ==
    /\ Len(streams) = 1
    /\ Len(putLog) >= 2
    /\ coordPc = "send"

\* C20: the stream at position i of the pool (counted from 0) is named i, the
\* names are pairwise distinct, and a step never removes or renames a stream.
C20_PoolOnlyGrows ==
    /\ [](/\ \A i \in 1..Len(streams) : streams[i].name = i - 1
          /\ \A i, j \in 1..Len(streams) :
                i # j => streams[i].name # streams[j].name)
    /\ [][/\ Len(streams') >= Len(streams)
          /\ \A i \in 1..Len(streams) : streams'[i].name = streams[i].name]_vars

C20_Witness ==
    /\ Len(streams) = 1
    /\ streams[1].name = 0
    /\ streams[1].sequenceToken # NoToken
====
